---- MODULE Spec2Model ----
(***************************************************************************)
(* The two fake_graceful_nginx.py fixtures (src/nginx and src/ingress) as  *)
(* one state machine: the main script advances statement by statement,     *)
(* the kernel holds the signal mask, the pending set and the dispositions, *)
(* and the interpreter runs a Python-level handler for every signal whose  *)
(* C-level handler has tripped, nested on top of whatever was running.     *)
(* Strings that the code takes apart (the arguments) are sequences of      *)
(* characters; program positions are source line numbers.                  *)
(***************************************************************************)
EXTENDS Integers, Sequences, FiniteSets, TLC

VARIABLES variant, argv, pc, stack, blocked, sigpending, disp, tripped,
          out, startup_marker_file_name, f, disk, status, exitStatus,
          termsig, sent, hist

vars == <<variant, argv, pc, stack, blocked, sigpending, disp, tripped,
          out, startup_marker_file_name, f, disk, status, exitStatus,
          termsig, sent, hist>>

(* ---------------- bounds ---------------- *)
MaxSignals == 3
MaxArgs == 2

(* ---------------- program constants ---------------- *)
StatusModulus == 256
NoStatus == StatusModulus
Signals == {"SIGQUIT", "SIGHUP"}
Variants == {"nginx", "ingress"}

VersionFlag == <<"-", "v">>
ValidateFlag == <<"-", "t">>
ConfFlag == <<"-", "c">>
Slash == "/"
NginxStarted == <<"nginx-started">>
Firsts == {VersionFlag, ValidateFlag, ConfFlag}
Paths == {<<"f">>, <<"a", "/", "f">>, <<"/", "f">>, <<"b", "/", "f">>}
Dirs == {<<>>, <<"a">>}

ArgsOfLen(n) ==
  {s \in [1..n -> Firsts \cup Paths] :
      /\ (n >= 1 => s[1] \in Firsts)
      /\ \A i \in 2..n : s[i] \in Paths}
ArgLists == UNION {ArgsOfLen(n) : n \in 0..MaxArgs}

(* ---------------- pure helpers ---------------- *)
RECURSIVE Split(_, _)
Split(s, sep) ==
  IF \A i \in 1..Len(s) : s[i] # sep THEN <<s>>
  ELSE LET k == CHOOSE i \in 1..Len(s) :
                   s[i] = sep /\ \A j \in 1..(i - 1) : s[j] # sep
       IN <<SubSeq(s, 1, k - 1)>> \o Split(SubSeq(s, k + 1, Len(s)), sep)

RECURSIVE Join(_, _)
Join(sep, parts) ==
  IF parts = <<>> THEN <<>>
  ELSE IF Len(parts) = 1 THEN parts[1]
  ELSE parts[1] \o <<sep>> \o Join(sep, Tail(parts))

ButLast(s) == SubSeq(s, 1, Len(s) - 1)

MarkerDir(arg) == Join(Slash, ButLast(Split(arg, Slash)))
MarkerName(arg) == MarkerDir(arg) \o <<Slash>> \o NginxStarted

(* a status taken by magnitude instead of modulo 256 *)
ExitStatusAbs(n) == IF n < 0 THEN 0 - n ELSE n

ExitStatus(n) == n % StatusModulus

IsVersionQuery(a) == a[1] = VersionFlag
(* the flag compared in the wrong case *)
IsValidationQueryUpper(a) == a[1] = <<"-", "T">>
IsValidationQuery(a) == a[1] = ValidateFlag

ShutdownMessage == "Received sigquit, doing graceful shutdown"
TimeoutMessage == IF variant = "nginx" THEN "Quit after 5 seconds of nada"
                  ELSE "Should have handled SIGQUIT"
SleepLine == IF variant = "nginx" THEN 37 ELSE 18
HandlerEntry(h) == IF h = "sighup_handler" THEN 14 ELSE 8
Frame(h) == [fn |-> h, line |-> HandlerEntry(h)]
QuitFrames == {i \in 1..Len(stack) : stack[i].fn # "sighup_handler"}

Running == status = "running"
AtMain(l) == Running /\ stack = <<>> /\ tripped = {} /\ pc = l
AtMainOf(v, l) == variant = v /\ AtMain(l)
AtHandler(h, l) ==
  /\ Running /\ stack # <<>> /\ tripped = {}
  /\ stack[Len(stack)].fn = h /\ stack[Len(stack)].line = l

Pop == stack' = ButLast(stack)
HandlerGoto(l) == stack' = [stack EXCEPT ![Len(stack)].line = l]

kern == <<blocked, sigpending, disp, tripped>>
files == <<startup_marker_file_name, f, disk>>
term == <<status, exitStatus, termsig>>
fixed == <<variant, argv>>

(* ---------------- Init ---------------- *)
Init ==
  /\ variant \in Variants
  /\ argv \in ArgLists
  /\ pc = IF variant = "nginx" THEN 16 ELSE 12
  /\ stack = <<>>
  /\ blocked \in {{"SIGQUIT"}, {"SIGQUIT", "SIGHUP"}}
  /\ sigpending = {}
  /\ disp = [s \in Signals |-> "SIG_DFL"]
  /\ tripped = {}
  /\ out = <<>>
  /\ startup_marker_file_name = <<>>
  /\ f = [open |-> FALSE, buf |-> ""]
  /\ disk = <<>>
  /\ status = "running"
  /\ exitStatus = NoStatus
  /\ termsig = "none"
  /\ sent = 0
  /\ hist = [via |-> "none", delivered |-> {}, quitEarly |-> FALSE,
             drained |-> 0, lateQuit |-> FALSE, reentered |-> FALSE,
             hupRuns |-> 0, hupAfterInstall |-> FALSE,
             quitAfterMarker |-> FALSE, mask0 |-> blocked]

(* ---------------- process termination ---------------- *)
(* sys.exit(code) reaching the top level, or an uncaught exception: the    *)
(* interpreter closes (and so flushes) a file object that is still open.   *)
ExitProcess(code, how, h) ==
  /\ status' = "exited"
  /\ exitStatus' = ExitStatus(code)
  /\ disk' = IF f.open
             THEN [disk EXCEPT ![startup_marker_file_name] = f.buf]
             ELSE disk
  /\ f' = [open |-> FALSE, buf |-> ""]
  /\ hist' = [h EXCEPT !.via = how]
  /\ UNCHANGED <<fixed, pc, stack, kern, out, startup_marker_file_name,
                 termsig, sent>>

(* An uncaught IndexError / OSError: traceback, exit status 1.             *)
Raise(exc) ==
  /\ out' = Append(out, exc)
  /\ status' = "exited"
  /\ exitStatus' = ExitStatus(1)
  /\ disk' = disk
  /\ f' = [open |-> FALSE, buf |-> ""]
  /\ hist' = [hist EXCEPT !.via = "error"]
  /\ UNCHANGED <<fixed, pc, stack, kern, startup_marker_file_name,
                 termsig, sent>>

(* The default action of SIGQUIT and SIGHUP: the kernel ends the process;  *)
(* nothing buffered in the process reaches the disk.                       *)
DefaultAction(sig, h) ==
  /\ status' = "signaled"
  /\ termsig' = sig
  /\ hist' = [h EXCEPT !.via = "signal", !.delivered = @ \cup {sig}]
  /\ UNCHANGED <<fixed, pc, stack, out, files, exitStatus>>

(* ---------------- the environment: signals sent to the process -------- *)
Send(sig) ==
  /\ Running
  /\ sent < MaxSignals
  /\ sent' = sent + 1
  /\ LET h == [hist EXCEPT
                 !.quitEarly = @ \/ (sig = "SIGQUIT" /\ pc <= SleepLine),
                 !.hupAfterInstall =
                     @ \/ (sig = "SIGHUP" /\ disp[sig] = "sighup_handler"),
                 !.quitAfterMarker =
                     @ \/ (sig = "SIGQUIT" /\ DOMAIN disk # {})]
     IN IF sig \in blocked
        THEN /\ sigpending' = sigpending \cup {sig}
             /\ hist' = h
             /\ UNCHANGED <<fixed, pc, stack, blocked, disp, tripped, out,
                            files, term>>
        ELSE IF disp[sig] = "SIG_DFL"
        THEN /\ DefaultAction(sig, h)
             /\ UNCHANGED kern
        ELSE /\ tripped' = tripped \cup {sig}
             /\ hist' = [h EXCEPT !.delivered = @ \cup {sig}]
             /\ UNCHANGED <<fixed, pc, stack, blocked, sigpending, disp,
                            out, files, term>>

(* ---------------- the interpreter: running a tripped handler ---------- *)
Dispatch(sig) ==
  /\ Running
  /\ sig \in tripped
  /\ tripped' = tripped \ {sig}
  /\ stack' = Append(stack, Frame(disp[sig]))
  /\ hist' = [hist EXCEPT
                !.lateQuit = @ \/ (sig = "SIGQUIT" /\ pc > SleepLine),
                !.reentered = @ \/ (sig = "SIGQUIT" /\ QuitFrames # {})]
  /\ UNCHANGED <<fixed, pc, blocked, sigpending, disp, out, files, term,
                 sent>>

(* ---------------- the handlers ---------------- *)
DrainSleep(l) ==
  /\ HandlerGoto(l)
  /\ hist' = [hist EXCEPT !.drained = @ + 1]
  /\ UNCHANGED <<fixed, pc, kern, out, files, term, sent>>

PrintShutdown(l) ==
  /\ HandlerGoto(l)
  /\ out' = Append(out, ShutdownMessage)
  /\ UNCHANGED <<fixed, pc, kern, files, term, sent, hist>>

(* a quit handler that returns instead of exiting *)
HandlerReturn ==
  /\ Pop
  /\ UNCHANGED <<fixed, pc, kern, out, files, term, sent, hist>>

HandlerExit == ExitProcess(0, "quit", hist)

(* src/nginx: sleep, print, exit *)
sigquit_handler ==
  \/ AtHandler("sigquit_handler", 8) /\ DrainSleep(9)
  \/ AtHandler("sigquit_handler", 9) /\ PrintShutdown(10)
  \/ AtHandler("sigquit_handler", 10) /\ HandlerExit

(* src/ingress: print, sleep, exit *)
signal_handler ==
  \/ AtHandler("signal_handler", 8) /\ PrintShutdown(9)
  \/ AtHandler("signal_handler", 9) /\ DrainSleep(10)
  \/ AtHandler("signal_handler", 10) /\ HandlerExit

(* a reload handler that does something unsafe and raises *)
sighup_handler_unsafe ==
  /\ AtHandler("sighup_handler", 14)
  /\ Raise("RuntimeError")

(* src/nginx: pass, then return to whatever was interrupted *)
sighup_handler ==
  /\ AtHandler("sighup_handler", 14)
  /\ Pop
  /\ hist' = [hist EXCEPT !.hupRuns = @ + 1]
  /\ UNCHANGED <<fixed, pc, kern, out, files, term, sent>>

(* ---------------- statements of the main script ---------------- *)
Goto(l) == pc' = l

PrintArgs(next) ==
  /\ out' = Append(out, "Running")
  /\ Goto(next)
  /\ UNCHANGED <<fixed, stack, kern, files, term, sent, hist>>

PrintLine(msg, next) ==
  /\ out' = Append(out, msg)
  /\ Goto(next)
  /\ UNCHANGED <<fixed, stack, kern, files, term, sent, hist>>

(* if sys.argv[1] == flag: an argument list without a first argument      *)
(* raises IndexError                                                       *)
TestFlag(isFlag, then, else) ==
  IF Len(argv) < 1 THEN Raise("IndexError")
  ELSE /\ Goto(IF isFlag THEN then ELSE else)
       /\ UNCHANGED <<fixed, stack, kern, out, files, term, sent, hist>>

(* pthread_sigmask called with SIG_BLOCK *)
UnblockAsBlock(sigs, next) ==
  /\ blocked' = blocked \cup sigs
  /\ Goto(next)
  /\ UNCHANGED <<fixed, stack, sigpending, disp, tripped, out, files, term,
                 sent, hist>>

(* signal.pthread_sigmask(signal.SIG_UNBLOCK, sigs): a pending signal of  *)
(* sigs is delivered before the call returns                               *)
Unblock(sigs, next) ==
  LET due == sigpending \cap sigs
  IN IF \E s \in due : disp[s] = "SIG_DFL"
     THEN \E s \in due :
            /\ disp[s] = "SIG_DFL"
            /\ DefaultAction(s, hist)
            /\ blocked' = blocked \ sigs
            /\ sigpending' = sigpending \ due
            /\ UNCHANGED <<disp, tripped, sent>>
     ELSE /\ blocked' = blocked \ sigs
          /\ sigpending' = sigpending \ due
          /\ tripped' = tripped \cup due
          /\ hist' = [hist EXCEPT !.delivered = @ \cup due]
          /\ Goto(next)
          /\ UNCHANGED <<fixed, stack, disp, out, files, term, sent>>

(* signal.signal(sig, handler) *)
InstallHandler(sig, handler, next) ==
  /\ disp' = [disp EXCEPT ![sig] = handler]
  /\ Goto(next)
  /\ UNCHANGED <<fixed, stack, blocked, sigpending, tripped, out, files,
                 term, sent, hist>>

(* signal.pause() called: returns only after a handler has returned *)
PauseCalled(next) ==
  /\ hist.hupRuns > 0
  /\ Goto(next)
  /\ UNCHANGED <<fixed, stack, kern, out, files, term, sent, hist>>

(* signal.pause : the attribute is read and not called *)
Pause(next) ==
  /\ Goto(next)
  /\ UNCHANGED <<fixed, stack, kern, out, files, term, sent, hist>>

(* startup_marker_file_name = str.join('/', sys.argv[2].split('/')[:-1])  *)
(*                            + '/nginx-started'                           *)
ComputeMarkerName(next) ==
  IF Len(argv) < 2 THEN Raise("IndexError")
  ELSE /\ startup_marker_file_name' = MarkerName(argv[2])
       /\ Goto(next)
       /\ UNCHANGED <<fixed, stack, kern, out, f, disk, term, sent, hist>>

(* with open(startup_marker_file_name, 'w') as f: creates or truncates    *)
OpenMarker(next) ==
  IF MarkerDir(argv[2]) \notin Dirs THEN Raise("FileNotFoundError")
  ELSE /\ disk' = [n \in DOMAIN disk \cup {startup_marker_file_name} |->
                     IF n = startup_marker_file_name THEN "" ELSE disk[n]]
       /\ f' = [open |-> TRUE, buf |-> ""]
       /\ Goto(next)
       /\ UNCHANGED <<fixed, stack, kern, out, startup_marker_file_name,
                      term, sent, hist>>

(* another text written *)
WriteMarkerTypo(next) ==
  /\ f' = [f EXCEPT !.buf = "started"]
  /\ Goto(next)
  /\ UNCHANGED <<fixed, stack, kern, out, startup_marker_file_name, disk,
                 term, sent, hist>>

(* f.write('started!'): into the file object's buffer *)
WriteMarker(next) ==
  /\ f' = [f EXCEPT !.buf = "started!"]
  /\ Goto(next)
  /\ UNCHANGED <<fixed, stack, kern, out, startup_marker_file_name, disk,
                 term, sent, hist>>

(* leaving the with block closes f, which flushes the buffer *)
CloseMarker(next) ==
  /\ disk' = [disk EXCEPT ![startup_marker_file_name] = f.buf]
  /\ f' = [open |-> FALSE, buf |-> ""]
  /\ Goto(next)
  /\ UNCHANGED <<fixed, stack, kern, out, startup_marker_file_name, term,
                 sent, hist>>

(* time.sleep(5): returns once the whole interval has passed; a handler   *)
(* that returns lets the sleep go on                                       *)
Sleep5(next) ==
  /\ Goto(next)
  /\ UNCHANGED <<fixed, stack, kern, out, files, term, sent, hist>>

(* the timeout path leaving with sys.exit(0) *)
TimeoutExitZero == ExitProcess(0, "timeout", hist)
QueryExit == ExitProcess(0, "query", hist)
TimeoutExit == ExitProcess(-1, "timeout", hist)

(* src/nginx/fake_graceful_nginx.py, lines 16-39 *)
NginxQuery ==
  \/ AtMainOf("nginx", 16) /\ PrintArgs(18)
  \/ AtMainOf("nginx", 18) /\ TestFlag(IsVersionQuery(argv), 19, 22)
  \/ AtMainOf("nginx", 19) /\ PrintLine("Asked for version", 20)
  \/ AtMainOf("nginx", 20) /\ QueryExit
  \/ AtMainOf("nginx", 22) /\ TestFlag(IsValidationQuery(argv), 23, 28)
  \/ AtMainOf("nginx", 23) /\ PrintLine("Asked for config validation", 24)
  \/ AtMainOf("nginx", 24) /\ QueryExit

NginxSetup ==
  \/ AtMainOf("nginx", 28) /\ Unblock({"SIGQUIT", "SIGHUP"}, 29)
  \/ AtMainOf("nginx", 29) /\ InstallHandler("SIGQUIT", "sigquit_handler", 30)
  \/ AtMainOf("nginx", 30) /\ InstallHandler("SIGHUP", "sighup_handler", 31)
  \/ AtMainOf("nginx", 31) /\ Pause(33)

NginxMarker ==
  \/ AtMainOf("nginx", 33) /\ ComputeMarkerName(34)
  \/ AtMainOf("nginx", 34) /\ OpenMarker(35)
  \/ AtMainOf("nginx", 35) /\ WriteMarker(36)
  \/ AtMainOf("nginx", 36) /\ CloseMarker(37)

NginxWait ==
  \/ AtMainOf("nginx", 37) /\ Sleep5(38)
  \/ AtMainOf("nginx", 38) /\ PrintLine(TimeoutMessage, 39)
  \/ AtMainOf("nginx", 39) /\ TimeoutExit

(* src/ingress/fake_graceful_nginx.py, lines 12-20 *)
IngressMain ==
  \/ AtMainOf("ingress", 12) /\ PrintArgs(15)
  \/ AtMainOf("ingress", 15) /\ Unblock({"SIGQUIT"}, 16)
  \/ AtMainOf("ingress", 16) /\ InstallHandler("SIGQUIT", "signal_handler", 17)
  \/ AtMainOf("ingress", 17) /\ Pause(18)
  \/ AtMainOf("ingress", 18) /\ Sleep5(19)
  \/ AtMainOf("ingress", 19) /\ PrintLine(TimeoutMessage, 20)
  \/ AtMainOf("ingress", 20) /\ TimeoutExit

Main == NginxQuery \/ NginxSetup \/ NginxMarker \/ NginxWait \/ IngressMain
Handlers == sigquit_handler \/ signal_handler \/ sighup_handler
Interpreter == \E sig \in Signals : Dispatch(sig)
Program == Main \/ Handlers \/ Interpreter
Environment == \E sig \in Signals : Send(sig)

Next == Program \/ Environment

Spec == Init /\ [][Next]_vars

(* the interpreter keeps executing while the process is alive *)
FairSpec == Spec /\ WF_vars(Program)

TypeOK ==
  /\ variant \in Variants
  /\ status \in {"running", "exited", "signaled"}
  /\ exitStatus \in 0..StatusModulus
  /\ blocked \subseteq Signals /\ sigpending \subseteq blocked
  /\ tripped \subseteq Signals
  /\ sent \in 0..MaxSignals

(* ---------------- vocabulary of the properties ---------------- *)
Terminated == status # "running"
Exited == status = "exited"
HasFirst == Len(argv) >= 1
QueryMode == HasFirst /\ argv[1] \in {VersionFlag, ValidateFlag}
WaitMode == HasFirst /\ argv[1] \notin {VersionFlag, ValidateFlag}
Acknowledgment ==
  IF argv[1] = VersionFlag THEN "Asked for version"
  ELSE "Asked for config validation"
(* the arguments the marker-file variant needs to get through lines 18-36 *)
WellFormed ==
  variant = "nginx" =>
    /\ HasFirst
    /\ WaitMode => (Len(argv) >= 2 /\ MarkerDir(argv[2]) \in Dirs)
Printed(msg) == \E i \in 1..Len(out) : out[i] = msg
LastPrinted(msg) == out # <<>> /\ out[Len(out)] = msg
Count(msg) == Cardinality({i \in 1..Len(out) : out[i] = msg})
HasSlash(path) == \E i \in 1..Len(path) : path[i] = Slash
LastSlash(path) ==
  CHOOSE i \in 1..Len(path) :
    path[i] = Slash /\ \A j \in (i + 1)..Len(path) : path[j] # Slash
(* the parent directory of a path: the text before its last '/', and the   *)
(* current directory for a path without one                                *)
ParentDir(path) ==
  IF HasSlash(path) THEN SubSeq(path, 1, LastSlash(path) - 1) ELSE <<".">>
MarkerIn(dir) ==
  LET name == dir \o <<Slash>> \o NginxStarted
  IN name \in DOMAIN disk /\ disk[name] = "started!"
SetupDone ==
  /\ blocked \cap {"SIGQUIT", "SIGHUP"} = {}
  /\ disp["SIGQUIT"] = "sigquit_handler"
  /\ disp["SIGHUP"] = "sighup_handler"

(* C1: in wait mode a SIGQUIT sent at any moment before the 5-second       *)
(* timeout expires (also while still blocked, also between unblocking and  *)
(* handler installation) ends the run with exit status 0 through the quit  *)
(* handler, never through the default action or the timeout exit.  (Runs  *)
(* in which a SIGHUP is delivered as well are left aside.)                 *)
C1_QuitBeforeTimeoutIsGraceful ==
  (Terminated /\ WaitMode /\ hist.quitEarly /\ "SIGHUP" \notin hist.delivered) =>
     (Exited /\ exitStatus = 0 /\ hist.via = "quit")

(* C2 as stated: in wait mode, whatever the further arguments, a run with  *)
(* no signal delivered prints the timeout message and then exits non-zero. *)
C2_TimeoutForEveryArgumentList ==
  (Terminated /\ WaitMode /\ hist.delivered = {}) =>
     (Exited /\ exitStatus # 0 /\ LastPrinted(TimeoutMessage))

(* C2 amended: the same for the argument lists that let the marker-file    *)
(* variant write its marker (second argument present, directory exists);   *)
(* the status is then 255 and the timeout message is the last line printed *)
C2_TimeoutWhenMarkerWritable ==
  (Terminated /\ WaitMode /\ WellFormed /\ hist.delivered = {}) =>
     (Exited /\ exitStatus = 255 /\ hist.via = "timeout"
        /\ LastPrinted(TimeoutMessage))

C2_Witness ==
  /\ Exited /\ WaitMode /\ hist.delivered = {} /\ variant = "nginx"
  /\ Len(argv) >= 2 /\ LastPrinted(TimeoutMessage) /\ exitStatus = 255

(* what C3 says of a -v / -t run *)
QueryRunIsInert ==
  /\ blocked = hist.mask0
  /\ \A s \in Signals : disp[s] = "SIG_DFL"
  /\ disk = <<>> /\ ~f.open
  /\ stack = <<>> /\ tripped = {}
  /\ pc \notin {SleepLine, SleepLine + 1, SleepLine + 2}
  /\ Exited => /\ exitStatus = 0
               /\ out = <<"Running", Acknowledgment>>

(* C3 as stated: in every variant a -v / -t run prints the arguments and   *)
(* the acknowledgment and exits 0 without changing the mask, installing a  *)
(* handler, writing the marker or entering the wait.                       *)
C3_QueryInertInEveryVariant == QueryMode => QueryRunIsInert

(* C3 amended: that holds in the variant that tests the flags (src/nginx)  *)
C3_QueryInertInNginx == (variant = "nginx" /\ QueryMode) => QueryRunIsInert

C3_Witness ==
  /\ variant = "nginx" /\ Exited /\ QueryMode /\ argv[1] = ValidateFlag
  /\ exitStatus = 0 /\ out = <<"Running", "Asked for config validation">>
  /\ sent > 0 /\ sigpending # {}

(* C4 as stated: in the variant with the reload handler, once SIGHUP is    *)
(* sent with its handler installed the process is never ended by a signal  *)
(* and the run ends with status 0 through the quit handler or with the     *)
(* timeout exit.                                                           *)
C4_HupLeavesTwoExits ==
  (variant = "nginx" /\ hist.hupAfterInstall) =>
     /\ status # "signaled"
     /\ Exited => \/ hist.via = "quit" /\ exitStatus = 0
                  \/ hist.via = "timeout" /\ exitStatus = 255

(* C4 amended: ... or, for an argument list that does not let the marker   *)
(* be written, with the uncaught exception of lines 33-34 (status 1), as   *)
(* it would without SIGHUP.                                                *)
C4_HupLeavesTheExitsOfTheRun ==
  (variant = "nginx" /\ hist.hupAfterInstall) =>
     /\ status # "signaled"
     /\ Exited => \/ hist.via = "quit" /\ exitStatus = 0
                  \/ hist.via = "timeout" /\ exitStatus = 255
                  \/ hist.via = "error" /\ exitStatus = 1 /\ ~WellFormed

C4_Witness ==
  /\ variant = "nginx" /\ hist.hupRuns >= 2 /\ Exited
  /\ hist.via = "timeout" /\ QuitFrames = {}

C6_ExitStatuses ==
  Exited =>
     /\ (exitStatus = 0) <=> (QueryMode \/ hist.via = "quit")
     /\ hist.via = "timeout" => exitStatus = 255
     /\ WellFormed => exitStatus \in {0, 255}

(* C6 amended: ... exactly when it was a -v / -t query of the variant that *)
(* tests the flags (src/nginx) or the quit handler ran; ...                *)
C6_ExitStatusesPerVariant ==
  Exited =>
     /\ (exitStatus = 0) <=>
          ((variant = "nginx" /\ QueryMode) \/ hist.via = "quit")
     /\ hist.via = "quit" <=> QuitFrames # {}
     /\ hist.via = "timeout" => exitStatus = 255
     /\ WellFormed => exitStatus \in {0, 255}

C6_Witness ==
  /\ Exited /\ hist.via = "timeout" /\ exitStatus = 255
  /\ variant = "ingress" /\ QueryMode

(* C7: in the marker-file variant, in every state where nginx-started      *)
(* exists SIGQUIT and SIGHUP are unblocked and both handlers are           *)
(* installed, and a run that was sent SIGQUIT while the marker existed     *)
(* ends with status 0 through the quit handler.                            *)
C7_MarkerImpliesSetupDone ==
  variant = "nginx" =>
     /\ DOMAIN disk # {} => SetupDone
     /\ (hist.quitAfterMarker /\ Terminated) =>
           (Exited /\ exitStatus = 0 /\ hist.via = "quit")

C7_Witness ==
  /\ variant = "nginx" /\ hist.quitAfterMarker /\ Exited /\ exitStatus = 0
  /\ MarkerIn(<<>>)

(* C8: in every variant the shutdown confirmation is printed only after    *)
(* the drain sleep of the handler has completed.                           *)
C8_SleepBeforeConfirmation == Count(ShutdownMessage) <= hist.drained

(* C9: every run terminates, whatever the arguments and the (finitely      *)
(* many) SIGQUIT and SIGHUP sent, re-entered quit handlers included: the   *)
(* process is eventually gone, by an exit or by a signal's default action. *)
C9_EveryRunTerminates == <>Terminated

C9_Witness == Terminated /\ hist.reentered /\ hist.hupRuns > 0

(* C10 as stated: no run prints both the timeout message and the shutdown  *)
(* confirmation, and a run that printed the timeout message exits with a   *)
(* non-zero status.                                                        *)
C10_OutcomesExclusive ==
  /\ ~(Printed(TimeoutMessage) /\ Printed(ShutdownMessage))
  /\ (Exited /\ Printed(TimeoutMessage)) => exitStatus # 0

(* C10 amended: the timeout message is never printed after a confirmation; *)
(* both are printed only when SIGQUIT is handled after the 5-second sleep  *)
(* has returned, and then the run exits with status 0; a run that printed  *)
(* the timeout message and handled no such SIGQUIT exits with 255.         *)
C10_OutcomesExclusiveUnlessLateQuit ==
  /\ \A i, j \in 1..Len(out) :
        (out[i] = ShutdownMessage /\ out[j] = TimeoutMessage) => j < i
  /\ (Printed(TimeoutMessage) /\ Printed(ShutdownMessage)) => hist.lateQuit
  /\ (Exited /\ Printed(TimeoutMessage)) =>
        IF hist.lateQuit THEN exitStatus = 0 /\ hist.via = "quit"
        ELSE exitStatus = 255 /\ ~Printed(ShutdownMessage)

C10_Witness ==
  /\ Exited /\ Printed(TimeoutMessage) /\ Printed(ShutdownMessage)
  /\ exitStatus = 0
====
